---- MODULE Spec2Model ----
(***************************************************************************)
(* Component lifecycle manager of deluge (deluge/component_async.py with   *)
(* deluge/loopingcall.py): the ComponentRegistry, its Components, their    *)
(* asyncio.Lock and their LoopingCall update timer, run by coroutines on a *)
(* single-threaded cooperative event loop.                                 *)
(*                                                                         *)
(* Scheduling: `cur` is the coroutine that is running.  A coroutine keeps  *)
(* running (cur stays) until it suspends: waiting for a lock that is not   *)
(* free, awaiting a user hook, awaiting the cancelled timer task, or       *)
(* awaiting asyncio.gather.  Only when cur = NoRunner may another          *)
(* coroutine be resumed or a new call begin.  Which of the coroutines that *)
(* can run is resumed next is not fixed: hooks and callers become ready at *)
(* times the program does not control.                                     *)
(*                                                                         *)
(* Further down: the LoopingCall on its own with the loop's clock, and the *)
(* message framer of deluge/protocol.py (DelugeRPCProtocol).               *)
(***************************************************************************)
EXTENDS Integers, Sequences, FiniteSets, TLC

\* ---------------------------------------------------------------- bounds
NumCallers == 3   \* caller tasks that may issue registry calls
MaxOps == 6       \* registry calls in the concurrent harness
MaxSeqOps == 5    \* registry calls of the single caller in the sequential harness
MaxObjs == 3      \* Component objects ever constructed
MaxDepend == 2    \* length of a depend list
MaxNames == 1     \* length of an explicit names argument

Names == {"c1", "c2", "c3"}
Objs == 1..MaxObjs
Callers == 1..NumCallers

None == "None"
NoObj == 0

\* A coroutine: <<c, 0>> is caller c itself, <<c, o>> the task asyncio.gather
\* made for _component_shutdown of object o in c's registry shutdown().
Runner == Callers \X (0..MaxObjs)
NoRunner == <<0, 0>>

Hooks == {"start", "stop", "pause", "resume", "shutdown"}

State ==
  {"STOPPING", "STOPPED", "STARTING", "STARTED", "PAUSING", "PAUSED",
   "RESUMING", "SHUTTING_DOWN", "SHUTDOWN"}

\* The states each _component_<t> accepts before it takes the lock.
Accepted(t) ==
  CASE t = "start" -> {"STOPPED", "STARTING", "STARTED"}
    [] t = "stop" -> {"STARTED", "PAUSED", "STOPPING", "STOPPED"}
    [] t = "pause" -> {"STARTED", "PAUSING", "PAUSED"}
    [] t = "resume" -> {"PAUSED", "RESUMING", "STARTED"}
    [] OTHER -> State

\* The state in which _component_<t> returns at once, holding the lock.
Final(t) ==
  CASE t = "start" -> "STARTED"
    [] t = "stop" -> "STOPPED"
    [] t = "pause" -> "PAUSED"
    [] t = "resume" -> "STARTED"
    [] OTHER -> "SHUTDOWN"

\* The state _component_<t> writes before awaiting the hook.
Intermediate(t) ==
  CASE t = "start" -> "STARTING"
    [] t = "stop" -> "STOPPING"
    [] t = "pause" -> "PAUSING"
    [] t = "resume" -> "RESUMING"
    [] OTHER -> "SHUTTING_DOWN"

SeqsUpTo(S, n) == UNION {[1..k -> S] : k \in 0..n}
NoRepeat(s) == \A i, j \in 1..Len(s) : s[i] = s[j] => i = j

\* The depend lists a Component named `name` is constructed with: other names,
\* each at most once.
DependLists(name) == {s \in SeqsUpTo(Names \ {name}, MaxDepend) : NoRepeat(s)}

\* The explicit names arguments of a registry call.
NameLists == SeqsUpTo(Names, MaxNames) \ {<<>>}

\* ------------------------------------------------------------- variables
VARIABLES
  components,       \* ComponentRegistry.components: dict in insertion order, <<[key, obj]>>
  dependents,       \* ComponentRegistry.dependents: name -> list of names
  component_name,   \* Component._component_name (None: object not constructed)
  component_depend, \* Component._component_depend
  component_state,  \* Component._component_state
  lock_locked,      \* Component._component_lock._locked
  lock_waiters,     \* Component._component_lock._waiters (FIFO of coroutines)
  timer_task,       \* Component._component_timer.task
  count,            \* hook invocations and timer.start() calls since the counters were last zeroed
  cur,              \* the running coroutine
  run,              \* per coroutine: the _component_<t> it executes and where it is
  call,             \* per caller: the registry call in progress
  stack,            \* per caller: the frames of the recursive start()/stop()
  result,           \* per caller: how its last call ended
  opsLeft,          \* calls the callers may still issue
  pre,              \* the states a caller recorded just before its call, until the call ends
  buf,              \* DelugeRPCProtocol.buf of the receiving protocol
  messages,         \* the payloads message_received was called with, in order
  bytes_received,   \* DelugeRPCProtocol.bytes_received of the receiving protocol
  bytes_sent,       \* DelugeRPCProtocol.bytes_sent of the sending protocol
  transport,        \* the bytes the sending protocol wrote to its transport
  sent,             \* the frames written so far: <<[version, payload]>>
  fed,              \* how many bytes of transport were passed to data_received
  recv,             \* how the last data_received call ended
  clock,            \* the event loop's time
  task_args,        \* the arguments of LoopingCall._run of the stand-alone timer
  wake,             \* the time at which the asyncio.sleep of _run ends
  calls,            \* invocations of the callback of the stand-alone timer
  lc,               \* the task that calls start() and stop() of the stand-alone timer
  sched             \* since the last successful start(): its time, the invocations, those that returned, time spent in the callback

regVars == <<components, dependents>>
objVars == <<component_name, component_depend>>
compVars == <<component_state, lock_locked, lock_waiters, timer_task, count>>
ctlVars == <<cur, run, call, stack, result, pre>>
framerVars == <<buf, messages, bytes_received, bytes_sent, transport, sent, fed, recv>>
loopVars == <<clock, task_args, wake, calls, lc, sched>>
\* What the registry and its Components never touch.
otherVars == <<framerVars, loopVars>>
vars ==
  <<components, dependents, component_name, component_depend, component_state,
    lock_locked, lock_waiters, timer_task, count, cur, run, call, stack, result,
    opsLeft, pre, buf, messages, bytes_received, bytes_sent, transport, sent,
    fed, recv, clock, task_args, wake, calls, lc, sched>>

\* ------------------------------------------------ faulty variants (mutants)
\* A lock that looks only at its waiters.
LockFreeIgnoresHolder(o) == lock_waiters[o] = <<>>
\* A state test that accepts everything.
CheckNeverRaises(t, st) == FALSE
\* No short-circuit under the lock.
NeverAlreadyFinal(t, st) == FALSE
\* start() that does not look at the depend list.
StartNeverDescends(depend) == FALSE
\* stop() that does not look at the dependents.
StopNeverDescends(deps) == FALSE
\* register() without the duplicate-name test.
RegisterNeverRaises(comps, name) == FALSE
\* register() that records no reverse edge.
RegisterNoDependents(deps, name, depend) == deps
\* Leaving the `async with` block without releasing the lock.
ReleaseNothing(o) == lock_locked' = lock_locked
\* LoopingCall.start without the running test.
StartNeverRaises(o) == FALSE
\* LoopingCall.stop without the running test.
StopNeverRaises(o) == FALSE
\* unpack_header that accepts every version byte.
AnyVersion(version) == FALSE
\* data_received that parses a header as soon as MESSAGE_HEADER_SIZE bytes are there.
HeaderComplete(b) == Len(b) >= 5
\* data_received that deletes as many bytes as the body has, header not counted.
ConsumeBodyLength(b, size) == SubSeq(b, size + 1, Len(b))

\* ---------------------------------------------------------- dict helpers
Has(d, k) == \E i \in 1..Len(d) : d[i].key = k
Get(d, k) == d[CHOOSE i \in 1..Len(d) : d[i].key = k].obj
Keys(d) == [i \in 1..Len(d) |-> d[i].key]
ValueSet(d) == {d[i].obj : i \in 1..Len(d)}
DictSet(d, k, v) ==
  IF Has(d, k)
  THEN [i \in 1..Len(d) |-> IF d[i].key = k THEN [key |-> k, obj |-> v] ELSE d[i]]
  ELSE Append(d, [key |-> k, obj |-> v])
DictDel(d, k) == SelectSeq(d, LAMBDA e : e.key # k)

RECURSIVE AppendAll(_, _, _)
\* for depend in obj._component_depend: self.dependents[depend].append(name)
AppendAll(deps, depend, name) ==
  IF depend = <<>> THEN deps
  ELSE AppendAll([deps EXCEPT ![Head(depend)] = Append(@, name)], Tail(depend), name)

\* trans: the _component_<t> called; part: the one whose body runs (shutdown
\* calls stop); seen: the state it found when it asked for the lock.
IdleRun == [trans |-> "none", part |-> "none", obj |-> NoObj, pc |-> "none", exc |-> "none", seen |-> "none"]
IdleCall == [op |-> "none", phase |-> "idle", kind |-> "list", names |-> <<>>, obj |-> NoObj, exc |-> "none"]
ZeroCount == [o \in Objs |-> [h \in Hooks \cup {"timer"} |-> 0]]
NoPre == [o \in Objs |-> "none"]

Frame(op, kind, names, key) ==
  [op |-> op, kind |-> kind, names |-> names, key |-> key,
   size |-> Len(components), i |-> 1, ph |-> "iter", name |-> None]

\* The names a frame iterates over: an explicit list or a depend list (never
\* modified), dict keys (a live view) or a dependents list (the live list).
FrameNames(f) ==
  CASE f.kind = "keys" -> Keys(components)
    [] f.kind = "dependents" -> dependents[f.key]
    [] OTHER -> f.names

\* A task asyncio.gather created for caller c that has not finished.
ChildrenBusy(c) ==
  \E o \in Objs : run[<<c, o>>].pc \notin {"none", "done", "raised"}

\* ------------------------------------------------------------------ Init
\* The module-level registry and no Component constructed.
InitEmpty ==
  /\ components = <<>>
  /\ dependents = [n \in Names |-> <<>>]
  /\ component_name = [o \in Objs |-> None]
  /\ component_depend = [o \in Objs |-> <<>>]
  /\ component_state = [o \in Objs |-> "STOPPED"]
  /\ lock_locked = [o \in Objs |-> FALSE]
  /\ lock_waiters = [o \in Objs |-> <<>>]
  /\ timer_task = [o \in Objs |-> "none"]
  /\ count = ZeroCount
  /\ cur = NoRunner
  /\ run = [r \in Runner |-> IdleRun]
  /\ call = [c \in Callers |-> IdleCall]
  /\ stack = [c \in Callers |-> <<>>]
  /\ result = [c \in Callers |-> "none"]
  /\ pre = NoPre
  /\ buf = <<>>
  /\ messages = <<>>
  /\ bytes_received = 0
  /\ bytes_sent = 0
  /\ transport = <<>>
  /\ sent = <<>>
  /\ fed = 0
  /\ recv = "none"
  /\ clock = 0
  /\ task_args = [interval |-> 0, now |-> TRUE]
  /\ wake = 0
  /\ calls = 0
  /\ lc = [pc |-> "idle", op |-> "none", result |-> "none", stopped |-> FALSE]
  /\ sched = [started |-> 0, fired |-> 0, returned |-> 0, busy |-> FALSE]

\* -------------------------------------------------------------- register
\* ComponentRegistry.register: the duplicate-name test.
RegisterRaises(comps, name) == Has(comps, name)

\* ComponentRegistry.register: self.components[obj._component_name] = obj
RegisterComponents(comps, name, o) == DictSet(comps, name, o)

\* ComponentRegistry.register: the reverse edges of a non-empty depend list.
RegisterDependents(deps, name, depend) ==
  IF depend # <<>> THEN AppendAll(deps, depend, name) ELSE deps

Snapshot == component_state

\* The caller is not in a call and the tasks of its last gather have ended.
Idle(c) == call[c].phase \in {"idle", "done"} /\ ~ChildrenBusy(c)

\* What every call does first: the caller task is scheduled and spends a call.
BeginCall(c) ==
  /\ cur = NoRunner
  /\ Idle(c)
  /\ opsLeft > 0
  /\ opsLeft' = opsLeft - 1

ResetChildren(c) ==
  [r \in Runner |-> IF r[1] = c THEN IdleRun ELSE run[r]]

\* Component.__init__ (which registers the new object) called by caller c.
\* It does not suspend.
CallRegister(c, name, depend, cnt) ==
  /\ BeginCall(c)
  /\ \E o \in Objs : component_name[o] = None
  /\ LET o == CHOOSE x \in Objs : component_name[x] = None /\ \A y \in Objs : component_name[y] = None => x <= y
     IN IF RegisterRaises(components, name)
        THEN /\ result' = [result EXCEPT ![c] = "AlreadyRegistered"]
             /\ UNCHANGED <<regVars, objVars>>
        ELSE /\ result' = [result EXCEPT ![c] = "ok"]
             /\ component_name' = [component_name EXCEPT ![o] = name]
             /\ component_depend' = [component_depend EXCEPT ![o] = depend]
             /\ components' = RegisterComponents(components, name, o)
             /\ dependents' = RegisterDependents(dependents, name, depend)
  /\ call' = [call EXCEPT ![c] = [IdleCall EXCEPT !.op = "register", !.phase = "done", !.names = <<name>>]]
  /\ run' = ResetChildren(c)
  /\ pre' = NoPre
  /\ count' = cnt
  /\ UNCHANGED <<component_state, lock_locked, lock_waiters, timer_task, cur, stack>>
  /\ UNCHANGED otherVars

\* The first frame of a cascade and the caller running it.
StartCascade(c, op, kind, names, obj, frameOp) ==
  /\ call' = [call EXCEPT ![c] = [IdleCall EXCEPT !.op = op, !.phase = "loop", !.kind = kind, !.names = names, !.obj = obj]]
  /\ stack' = [stack EXCEPT ![c] = <<Frame(frameOp, kind, names, None)>>]
  /\ cur' = <<c, 0>>
  /\ run' = ResetChildren(c)
  /\ result' = [result EXCEPT ![c] = "none"]

\* ComponentRegistry.start / stop / pause / resume (names): kind "keys" is names=None.
\* What the caller does around a call is given by `seen` and `cnt`: a caller
\* that records the states before its call passes Snapshot (else pre), one that
\* zeroes the counters before its call passes ZeroCount (else count).
CallCascade(c, op, kind, names, seen, cnt) ==
  /\ BeginCall(c)
  /\ StartCascade(c, op, kind, names, NoObj, op)
  /\ pre' = seen
  /\ count' = cnt
  /\ UNCHANGED <<regVars, objVars, component_state, lock_locked, lock_waiters, timer_task>>
  /\ UNCHANGED otherVars

CallStart(c, kind, names, seen, cnt) == CallCascade(c, "start", kind, names, seen, cnt)
CallStop(c, kind, names, seen, cnt) == CallCascade(c, "stop", kind, names, seen, cnt)
CallPause(c, kind, names, seen, cnt) == CallCascade(c, "pause", kind, names, seen, cnt)
CallResume(c, kind, names, seen, cnt) == CallCascade(c, "resume", kind, names, seen, cnt)

\* ComponentRegistry.shutdown: the cascade it awaits first, over all names.
ShutdownCascade == "stop"

\* ComponentRegistry.shutdown: await self.stop() comes first.
CallShutdown(c, seen, cnt) ==
  /\ BeginCall(c)
  /\ StartCascade(c, "shutdown", "keys", <<>>, NoObj, ShutdownCascade)
  /\ pre' = seen
  /\ count' = cnt
  /\ UNCHANGED <<regVars, objVars, component_state, lock_locked, lock_waiters, timer_task>>
  /\ UNCHANGED otherVars

\* ComponentRegistry.deregister(obj), up to its first suspension.
CallDeregister(c, o, seen, cnt) ==
  /\ BeginCall(c)
  /\ component_name[o] # None
  /\ IF o \notin ValueSet(components)
     THEN /\ result' = [result EXCEPT ![c] = "NotRegistered"]
          /\ call' = [call EXCEPT ![c] = [IdleCall EXCEPT !.op = "deregister", !.phase = "done", !.obj = o]]
          /\ run' = ResetChildren(c)
          /\ pre' = NoPre
          /\ UNCHANGED <<cur, stack>>
     ELSE IF component_state[o] # "SHUTDOWN"
     THEN /\ StartCascade(c, "deregister", "list", <<component_name[o]>>, o, "stop")
          /\ pre' = seen
     ELSE \* straight to del self.components[name]
          /\ call' = [call EXCEPT ![c] = [IdleCall EXCEPT !.op = "deregister", !.phase = "loop", !.obj = o]]
          /\ stack' = [stack EXCEPT ![c] = <<>>]
          /\ cur' = <<c, 0>>
          /\ run' = ResetChildren(c)
          /\ result' = [result EXCEPT ![c] = "none"]
          /\ pre' = seen
  /\ count' = cnt
  /\ UNCHANGED <<regVars, objVars, component_state, lock_locked, lock_waiters, timer_task>>
  /\ UNCHANGED otherVars

\* ------------------------------------------------------ control transfers
\* An exception leaves the caller's registry call: every frame is unwound.
Fail(c, exc) ==
  /\ result' = [result EXCEPT ![c] = exc]
  /\ call' = [call EXCEPT ![c] = [IdleCall EXCEPT !.op = call[c].op, !.phase = "done"]]
  /\ stack' = [stack EXCEPT ![c] = <<>>]
  /\ run' = [run EXCEPT ![<<c, 0>>] = IdleRun]
  /\ cur' = NoRunner
  /\ pre' = NoPre

\* The caller's registry call returns.
Complete(c) == Fail(c, "ok")

\* _component_<t> returns to what awaited it: _component_shutdown (after its
\* _component_stop), the for loop of the registry call, or asyncio.gather.
Return(rn, r) ==
  IF rn[r].trans = "shutdown" /\ rn[r].part = "stop"
  THEN /\ run' = [rn EXCEPT ![r].part = "shutdown", ![r].pc = "acquire"]
       /\ cur' = r
       /\ UNCHANGED <<call, stack, result, pre>>
  ELSE IF r[2] = 0
  THEN /\ run' = [rn EXCEPT ![r] = IdleRun]
       /\ call' = [call EXCEPT ![r[1]].phase = "loop"]
       /\ stack' = [stack EXCEPT ![r[1]][Len(stack[r[1]])].i = @ + 1,
                                 ![r[1]][Len(stack[r[1]])].ph = "iter"]
       /\ cur' = r
       /\ UNCHANGED <<result, pre>>
  ELSE /\ run' = [rn EXCEPT ![r] = IdleRun]
       /\ cur' = NoRunner
       /\ UNCHANGED <<call, stack, result, pre>>

\* _component_<t> raises: into the registry call, or into the gather task, whose
\* first exception asyncio.gather hands to the awaiting shutdown().
Raise(r, exc) ==
  IF r[2] = 0
  THEN Fail(r[1], exc)
  ELSE /\ run' = [run EXCEPT ![r].pc = "raised", ![r].exc = exc]
       /\ call' = IF call[r[1]].phase = "gather" /\ call[r[1]].exc = "none"
                  THEN [call EXCEPT ![r[1]].exc = exc]
                  ELSE call
       /\ cur' = NoRunner
       /\ UNCHANGED <<stack, result, pre>>

\* ------------------------------------------------- the registry for loops
\* Python's recursion limit, met only by a cascade that revisits a name: a
\* cascade over distinct names is never deeper than the number of names.
MaxDepth == Cardinality(Names)

Top(c) == stack[c][Len(stack[c])]

\* await self.components[name]._component_<op>()
Invoke(c, op, name) ==
  IF ~Has(components, name)
  THEN Fail(c, "KeyError") /\ UNCHANGED regVars
  ELSE /\ run' = [run EXCEPT ![<<c, 0>>] =
                    [IdleRun EXCEPT !.trans = op, !.part = op, !.obj = Get(components, name), !.pc = "enter"]]
       /\ call' = [call EXCEPT ![c].phase = "trans"]
       /\ stack' = [stack EXCEPT ![c][Len(stack[c])].ph = "call"]
       /\ UNCHANGED <<cur, result, pre, regVars>>

\* await self.start(depend) / await self.stop(self.dependents[name]): the loop
\* variable `name` keeps its value while the inner call runs.
Descend(c, name, f) ==
  IF Len(stack[c]) >= MaxDepth
  THEN Fail(c, "RecursionError") /\ UNCHANGED regVars
  ELSE /\ stack' = [stack EXCEPT ![c] = Append([@ EXCEPT ![Len(@)].ph = "call", ![Len(@)].name = name], f)]
       /\ UNCHANGED <<cur, run, call, result, pre, regVars>>

\* Faulty variant: shutdown() that returns after its stop cascade.
GatherNothing(c) == Complete(c) /\ UNCHANGED regVars

\* The body of ComponentRegistry.shutdown after await self.stop(): one task per
\* registered Component, each running _component_shutdown.
Gather(c) ==
  IF components = <<>>
  THEN Complete(c) /\ UNCHANGED regVars
  ELSE /\ run' = [r \in Runner |->
                    IF r[1] = c /\ r[2] \in ValueSet(components)
                    THEN [IdleRun EXCEPT !.trans = "shutdown", !.part = "shutdown", !.obj = r[2], !.pc = "ready"]
                    ELSE run[r]]
       /\ call' = [call EXCEPT ![c].phase = "gather"]
       /\ cur' = NoRunner
       /\ UNCHANGED <<stack, result, pre, regVars>>

\* del self.components[obj._component_name], the last line of deregister.
Delete(c) ==
  LET name == component_name[call[c].obj]
  IN IF ~Has(components, name)
     THEN Fail(c, "KeyError") /\ UNCHANGED regVars
     ELSE /\ components' = DictDel(components, name)
          /\ Complete(c)
          /\ UNCHANGED dependents

\* The cascade of the call has returned.
CascadeDone(c) ==
  CASE call[c].op = "shutdown" -> Gather(c)
    [] call[c].op = "deregister" -> Delete(c)
    [] OTHER -> Complete(c) /\ UNCHANGED regVars

\* if self.components[name]._component_depend: (start)
StartDescends(depend) == depend # <<>>

\* if self.dependents[name]: (stop)
StopDescends(deps) == deps # <<>>

\* One turn of `for name in names:` in start, stop, pause or resume, for the
\* innermost frame of caller c, which is running.
Loop(c) ==
  /\ cur = <<c, 0>>
  /\ call[c].phase = "loop"
  /\ IF stack[c] = <<>>
     THEN CascadeDone(c)
     ELSE LET f == Top(c)
              names == FrameNames(f)
              name == names[f.i]
          IN IF f.ph = "call"
             THEN Invoke(c, f.op, f.name)
             ELSE IF f.kind = "keys" /\ f.size # Len(components)
             THEN Fail(c, "RuntimeError") /\ UNCHANGED regVars
             ELSE IF f.i > Len(names)
             THEN /\ stack' = [stack EXCEPT ![c] = SubSeq(@, 1, Len(@) - 1)]
                  /\ UNCHANGED <<cur, run, call, result, pre, regVars>>
             ELSE IF f.op = "start"
             THEN IF ~Has(components, name)
                  THEN Fail(c, "KeyError") /\ UNCHANGED regVars
                  ELSE IF StartDescends(component_depend[Get(components, name)])
                  THEN Descend(c, name, Frame("start", "list", component_depend[Get(components, name)], None))
                  ELSE Invoke(c, "start", name)
             ELSE IF f.op = "stop"
             THEN IF ~Has(components, name)
                  THEN /\ stack' = [stack EXCEPT ![c][Len(stack[c])].i = @ + 1]
                       /\ UNCHANGED <<cur, run, call, result, pre, regVars>>
                  ELSE IF StopDescends(dependents[name])
                  THEN Descend(c, name, Frame("stop", "dependents", <<>>, name))
                  ELSE Invoke(c, "stop", name)
             ELSE Invoke(c, f.op, name)
  /\ UNCHANGED <<objVars, compVars, opsLeft>>
  /\ UNCHANGED otherVars

\* ------------------------------------------------- Component transitions
\* asyncio.Lock.acquire takes the lock without suspending only when it is not
\* locked and nobody waits.
LockFree(o) == ~lock_locked[o] /\ lock_waiters[o] = <<>>

\* The `async with self._component_lock` block is left: the lock is released
\* (the first waiter, if any, is woken and will take it when it runs).
Release(o) == lock_locked' = [lock_locked EXCEPT ![o] = FALSE]

\* The state test at the top of _component_start/_stop/_pause/_resume: the
\* transition raises WrongState.
CheckRaises(t, st) == st \notin Accepted(t)

\* _component_shutdown begins with _component_stop unless the state is STOPPED.
ShutdownStopsFirst(st) == st # "STOPPED"

\* The short-circuit made once the lock is held.
AlreadyFinal(t, st) == st = Final(t)

\* The lock is now r's, inside `async with self._component_lock`: return at
\* once if the state is already the final one (the lock is taken and released
\* in the same step), else write the intermediate state and await the user hook.
Body(rn, r, o, p) ==
  IF AlreadyFinal(p, component_state[o])
  THEN /\ Return(rn, r)
       /\ UNCHANGED <<component_state, count, lock_locked>>
  ELSE /\ lock_locked' = [lock_locked EXCEPT ![o] = TRUE]
       /\ component_state' = [component_state EXCEPT ![o] = Intermediate(p)]
       /\ count' = [count EXCEPT ![o][p] = @ + 1]
       /\ run' = [rn EXCEPT ![r].pc = "hook"]
       /\ cur' = NoRunner
       /\ UNCHANGED <<call, stack, result, pre>>

\* async with self._component_lock: take the lock or queue for it.
TryLock(r, o, p) ==
  IF LockFree(o)
  THEN Body([run EXCEPT ![r].part = p, ![r].seen = component_state[o]], r, o, p) /\ UNCHANGED lock_waiters
  ELSE /\ lock_waiters' = [lock_waiters EXCEPT ![o] = Append(@, r)]
       /\ run' = [run EXCEPT ![r].part = p, ![r].seen = component_state[o], ![r].pc = "lockwait"]
       /\ cur' = NoRunner
       /\ UNCHANGED <<component_state, count, lock_locked, call, stack, result, pre>>

\* _component_<t> from its first line, run by r, which is running: the state
\* test (for shutdown: the call of _component_stop and its state test), then
\* the lock.
Requested(r) ==
  IF run[r].trans = "shutdown"
  THEN (IF ShutdownStopsFirst(component_state[run[r].obj]) THEN "stop" ELSE "shutdown")
  ELSE run[r].trans

Enter(r) ==
  /\ cur = r
  /\ run[r].pc = "enter"
  /\ LET o == run[r].obj
         p == Requested(r)
     IN IF p # "shutdown" /\ CheckRaises(p, component_state[o])
        THEN /\ Raise(r, "WrongState")
             /\ UNCHANGED <<component_state, count, lock_locked, lock_waiters>>
        ELSE TryLock(r, o, p)
  /\ UNCHANGED <<regVars, objVars, timer_task, opsLeft>>
  /\ UNCHANGED otherVars

\* _component_shutdown after its _component_stop has returned: the lock again.
Acquire(r) ==
  /\ cur = r
  /\ run[r].pc = "acquire"
  /\ TryLock(r, run[r].obj, run[r].part)
  /\ UNCHANGED <<regVars, objVars, timer_task, opsLeft>>
  /\ UNCHANGED otherVars

\* The first waiter of a released lock runs again and takes the lock.
LockWake(r) ==
  /\ cur = NoRunner
  /\ run[r].pc = "lockwait"
  /\ LET o == run[r].obj
     IN /\ ~lock_locked[o]
        /\ lock_waiters[o] # <<>>
        /\ Head(lock_waiters[o]) = r
        /\ lock_waiters' = [lock_waiters EXCEPT ![o] = Tail(@)]
        /\ Body(run, r, o, run[r].part)
  /\ UNCHANGED <<regVars, objVars, timer_task, opsLeft>>
  /\ UNCHANGED otherVars

\* LoopingCall.running
Running(o) == timer_task[o] # "none"

\* LoopingCall.start: raises AlreadyRunning when a task exists.
TimerStartRaises(o) == Running(o)

\* LoopingCall.stop: raises NotRunning when no task exists.
TimerStopRaises(o) == ~Running(o)

\* The user hook has returned; the rest of _component_<t> up to its next
\* suspension.
HookReturn(r) ==
  /\ cur = NoRunner
  /\ run[r].pc = "hook"
  /\ LET o == run[r].obj
         p == run[r].part
     IN CASE p = "start" ->
               /\ component_state' = [component_state EXCEPT ![o] = "STARTED"]
               /\ Release(o)
               /\ IF TimerStartRaises(o)
                  THEN Raise(r, "AlreadyRunning") /\ UNCHANGED <<timer_task, count>>
                  ELSE /\ timer_task' = [timer_task EXCEPT ![o] = "pending"]
                       /\ count' = [count EXCEPT ![o]["timer"] = @ + 1]
                       /\ Return(run, r)
          [] p = "resume" ->
               /\ Release(o)
               /\ IF TimerStartRaises(o)
                  THEN Raise(r, "AlreadyRunning") /\ UNCHANGED <<timer_task, count, component_state>>
                  ELSE /\ timer_task' = [timer_task EXCEPT ![o] = "pending"]
                       /\ count' = [count EXCEPT ![o]["timer"] = @ + 1]
                       /\ component_state' = [component_state EXCEPT ![o] = "STARTED"]
                       /\ Return(run, r)
          [] p = "stop" ->
               IF TimerStopRaises(o)
               THEN \* except NotRunning: pass
                    /\ component_state' = [component_state EXCEPT ![o] = "STOPPED"]
                    /\ Release(o)
                    /\ Return(run, r)
                    /\ UNCHANGED <<timer_task, count>>
               ELSE /\ timer_task' = [timer_task EXCEPT ![o] = "cancelled"]
                    /\ run' = [run EXCEPT ![r].pc = "timerwait"]
                    /\ UNCHANGED <<cur, call, stack, result, pre, component_state, lock_locked, count>>
          [] p = "pause" ->
               IF TimerStopRaises(o)
               THEN /\ Release(o)
                    /\ Raise(r, "NotRunning")
                    /\ UNCHANGED <<timer_task, count, component_state>>
               ELSE /\ timer_task' = [timer_task EXCEPT ![o] = "cancelled"]
                    /\ run' = [run EXCEPT ![r].pc = "timerwait"]
                    /\ UNCHANGED <<cur, call, stack, result, pre, component_state, lock_locked, count>>
          [] OTHER ->
               /\ component_state' = [component_state EXCEPT ![o] = "SHUTDOWN"]
               /\ Release(o)
               /\ Return(run, r)
               /\ UNCHANGED <<timer_task, count>>
  /\ UNCHANGED <<regVars, objVars, lock_waiters, opsLeft>>
  /\ UNCHANGED otherVars

\* LoopingCall.stop has awaited the cancelled task: self.task = None, then the
\* final state of _component_stop / _component_pause.
TimerStopReturn(r) ==
  /\ cur = NoRunner
  /\ run[r].pc = "timerwait"
  /\ LET o == run[r].obj
         p == run[r].part
     IN /\ timer_task[o] = "cancelled"
        /\ timer_task' = [timer_task EXCEPT ![o] = "none"]
        /\ component_state' = [component_state EXCEPT ![o] = Final(p)]
        /\ Release(o)
        /\ Return(run, r)
  /\ UNCHANGED <<regVars, objVars, lock_waiters, count, opsLeft>>
  /\ UNCHANGED otherVars

\* LoopingCall._run: the task starts with the callback (now=True), then sleeps
\* and calls back in turn.
TimerNext(t) ==
  CASE t = "pending" -> "func"
    [] t = "func" -> "sleep"
    [] t = "sleep" -> "func"
    [] OTHER -> t

TimerStep(o) ==
  /\ cur = NoRunner
  /\ timer_task[o] \in {"pending", "func", "sleep"}
  /\ timer_task' = [timer_task EXCEPT ![o] = TimerNext(@)]
  /\ UNCHANGED <<regVars, objVars, component_state, lock_locked, lock_waiters, count, ctlVars, opsLeft>>
  /\ UNCHANGED otherVars

\* A task made by asyncio.gather runs for the first time.
ChildStart(r) ==
  /\ cur = NoRunner
  /\ r[2] # 0
  /\ run[r].pc = "ready"
  /\ run' = [run EXCEPT ![r].pc = "enter"]
  /\ cur' = r
  /\ UNCHANGED <<regVars, objVars, compVars, call, stack, result, opsLeft, pre>>
  /\ UNCHANGED otherVars

\* await asyncio.gather(...) in shutdown(): returns when every task is done,
\* raises as soon as one has raised.
GatherReturn(c) ==
  /\ cur = NoRunner
  /\ call[c].phase = "gather"
  /\ \/ call[c].exc # "none"
     \/ \A o \in Objs : run[<<c, o>>].pc \in {"none", "done"}
  /\ result' = [result EXCEPT ![c] = IF call[c].exc # "none" THEN call[c].exc ELSE "ok"]
  /\ call' = [call EXCEPT ![c] = [IdleCall EXCEPT !.op = call[c].op, !.phase = "done"]]
  /\ pre' = NoPre
  /\ UNCHANGED <<regVars, objVars, compVars, cur, run, stack, opsLeft>>
  /\ UNCHANGED otherVars

\* ---------------------------------------------------------- specifications
Step(r) ==
  \/ Enter(r)
  \/ HookReturn(r)
  \/ TimerStopReturn(r)
  \/ ChildStart(r)

\* Caller tasks are interchangeable: a new call is issued by the first one that
\* is not in a call.
Free(c) == Idle(c) /\ \A d \in Callers : d < c => ~Idle(d)

TheName == <<"c1">>

\* Component("c1"): __init__ registers the new object.
Construct ==
  /\ component_name[1] = None
  /\ cur = NoRunner
  /\ component_name' = [component_name EXCEPT ![1] = "c1"]
  /\ components' = RegisterComponents(components, "c1", 1)
  /\ UNCHANGED <<dependents, component_depend, compVars, ctlVars, opsLeft>>
  /\ UNCHANGED otherVars

\* Concurrent harness: one Component c1 is constructed, then up to NumCallers
\* tasks at a time issue MaxOps registry calls on it in all.
Init ==
  /\ InitEmpty
  /\ opsLeft = MaxOps

Next ==
  \/ Construct
  \/ \E c \in Callers :
       /\ component_name[1] # None
       /\ Free(c)
       /\ \/ CallStart(c, "list", TheName, pre, count)
          \/ CallStop(c, "list", TheName, pre, count)
          \/ CallPause(c, "list", TheName, pre, count)
          \/ CallResume(c, "list", TheName, pre, count)
          \/ CallShutdown(c, pre, count)
  \/ \E c \in Callers : Loop(c)
  \/ \E c \in Callers : GatherReturn(c)
  \/ \E r \in Runner : Step(r)
  \/ \E r \in Runner : Acquire(r)
  \/ \E r \in Runner : LockWake(r)
  \/ \E o \in Objs : TimerStep(o)

Spec == Init /\ [][Next]_vars

\* Sequential harness: one caller issues up to MaxSeqOps registry calls, each
\* after the previous one has ended, starting from the empty registry.
InitRegistry ==
  /\ InitEmpty
  /\ opsLeft = MaxSeqOps

NextRegistry ==
  \/ \E name \in Names : \E depend \in DependLists(name) : CallRegister(1, name, depend, ZeroCount)
  \/ \E o \in Objs : CallDeregister(1, o, Snapshot, ZeroCount)
  \/ \E names \in NameLists : CallStart(1, "list", names, Snapshot, ZeroCount)
  \/ \E names \in NameLists : CallStop(1, "list", names, Snapshot, ZeroCount)
  \/ \E names \in NameLists : CallPause(1, "list", names, Snapshot, ZeroCount)
  \/ \E names \in NameLists : CallResume(1, "list", names, Snapshot, ZeroCount)
  \/ CallStart(1, "keys", <<>>, Snapshot, ZeroCount)
  \/ CallStop(1, "keys", <<>>, Snapshot, ZeroCount)
  \/ CallPause(1, "keys", <<>>, Snapshot, ZeroCount)
  \/ CallResume(1, "keys", <<>>, Snapshot, ZeroCount)
  \/ CallShutdown(1, Snapshot, ZeroCount)
  \/ Loop(1)
  \/ GatherReturn(1)
  \/ \E r \in Runner : Step(r)

SpecRegistry == InitRegistry /\ [][NextRegistry]_vars

\* ------------------------------------------------------------- properties
Registered(o) == o \in ValueSet(components)
Elems(s) == {s[i] : i \in 1..Len(s)}

\* Runner r is awaiting the user hook of transition p.
InHook(r, p) == run[r].pc = "hook" /\ run[r].part = p

\* Runner r's _component_<t> raised exc in this step.
RaisedTo(r, exc) ==
  IF r[2] = 0
  THEN call'[r[1]].phase = "done" /\ result'[r[1]] = exc
  ELSE run'[r].pc = "raised" /\ run'[r].exc = exc

\* Runner r's _component_<t> returned normally in this step.
ReturnedTo(r) ==
  IF r[2] = 0
  THEN call'[r[1]].phase = "loop" /\ run'[r] = IdleRun
  ELSE run'[r] = IdleRun

\* Caller c's registry call `op` ends (returns or raises) in this step.
Ends(c, op) == call[c].op = op /\ call[c].phase # "done" /\ call'[c].phase = "done"

\* The names argument of caller c's call as a set.
Named(c) == IF call[c].kind = "keys" THEN Elems(Keys(components)) ELSE Elems(call[c].names)

\* Declared dependencies of the Component registered as n, and their converse.
DependSet(n) == IF Has(components, n) THEN Elems(component_depend[Get(components, n)]) ELSE {}
DeclaredDependents(n) == {m \in Elems(Keys(components)) : n \in DependSet(m)}

RECURSIVE Iterate(_, _, _)
Iterate(Op(_), T, k) == IF k = 0 THEN T ELSE Iterate(Op, T \cup UNION {Op(n) : n \in T}, k - 1)

DependClosure(S) == Iterate(DependSet, S, Cardinality(Names))
DependentsClosure(S) == Iterate(DeclaredDependents, S, Cardinality(Names))
MapDependents(n) == Elems(dependents[n])
MapClosure(S) == Iterate(MapDependents, S, Cardinality(Names))

Acyclic == \A n \in Names : n \notin DependClosure(DependSet(n))
NoStaleEdge == \A n \in Names : \A m \in Elems(dependents[n]) : n \in DependSet(m)

\* C1 (as stated): once a Component's state is Shutdown it never changes again
\* and none of its start/stop/pause/resume hooks is invoked afterwards.
C1_ShutdownTerminal ==
  [][\A o \in Objs :
       component_state[o] = "SHUTDOWN" =>
         /\ component_state'[o] = "SHUTDOWN"
         /\ \A h \in Hooks \ {"shutdown"} : count'[o][h] = count[o][h]]_vars

\* The coroutines between acquiring and releasing the lock of Component o.
Holders(o) == {r \in Runner : run[r].obj = o /\ run[r].pc \in {"hook", "timerwait"}}

\* C2: at most one transition of a Component is between acquiring and
\* releasing its lock, the lock is held exactly then, and every other request
\* on that Component that has passed its state test waits in the lock's queue.
C2_MutualExclusion ==
  \A o \in Objs :
    /\ Cardinality(Holders(o)) <= 1
    /\ lock_locked[o] <=> Holders(o) # {}
    /\ NoRepeat(lock_waiters[o])
    /\ Elems(lock_waiters[o]) = {r \in Runner : run[r].obj = o /\ run[r].pc = "lockwait"}

C2_Witness ==
  \E o \in Objs : \E r1, r2 \in Runner :
    /\ r1 \in Holders(o)
    /\ run[r2].obj = o /\ run[r2].pc = "lockwait"

\* The accepted sets as the specification lists them.
C3_AcceptedSet(t) ==
  CASE t = "start" -> {"STOPPED", "STARTING", "STARTED"}
    [] t = "stop" -> {"STARTED", "PAUSED", "STOPPING", "STOPPED"}
    [] t = "pause" -> {"STARTED", "PAUSING", "PAUSED"}
    [] t = "resume" -> {"PAUSED", "RESUMING", "STARTED"}

\* C3: a start, stop, pause or resume requested in a state outside its accepted
\* set raises WrongState and leaves the lock, its queue, the hooks' counters,
\* the timer and the state as they were.
C3_WrongState ==
  [][\A r \in Runner :
       (/\ cur = r
        /\ run[r].pc = "enter"
        /\ Requested(r) # "shutdown"
        /\ component_state[run[r].obj] \notin C3_AcceptedSet(Requested(r)))
       => /\ RaisedTo(r, "WrongState")
          /\ UNCHANGED <<component_state, lock_locked, lock_waiters, timer_task, count>>]_vars

\* pause on a freshly created Component has failed with WrongState.
C3_Witness ==
  \E c \in Callers :
    /\ call[c].op = "pause" /\ call[c].phase = "done" /\ result[c] = "WrongState"
    /\ component_state[1] = "STOPPED"
    /\ count = ZeroCount

\* While only start hooks have run on a Component, its start hook and
\* timer.start() have run at most once, and exactly once if it is Started.
C4_StartOnce ==
  \A o \in Objs :
    (\A h \in Hooks \ {"start"} : count[o][h] = 0) =>
      /\ count[o]["start"] <= 1
      /\ count[o]["timer"] <= 1
      /\ component_state[o] = "STARTED" => count[o]["start"] = 1 /\ count[o]["timer"] = 1

\* Two start calls were all that was issued, and both have ended.
C4_TwoStarts(c, d) ==
  /\ c # d
  /\ opsLeft = MaxOps - 2
  /\ call[c].op = "start" /\ call[c].phase = "done"
  /\ call[d].op = "start" /\ call[d].phase = "done"

C4_TwoStartsOnce ==
  \A c, d \in Callers :
    C4_TwoStarts(c, d) =>
      /\ result[c] = "ok" /\ result[d] = "ok"
      /\ count[1]["start"] = 1 /\ count[1]["timer"] = 1

\* A transition is requested in its own final state.
C4_AtFinal(r) ==
  /\ cur = r
  /\ run[r].pc = "enter"
  /\ component_state[run[r].obj] = Final(run[r].trans)

C4_NoOp(r) ==
  /\ UNCHANGED <<component_state, lock_locked, lock_waiters, timer_task, count>>
  /\ IF run[r].trans = "shutdown" THEN RaisedTo(r, "WrongState") ELSE ReturnedTo(r)

\* The hook of r's transition is invoked in this step.
Invokes(r) == run[r].pc # "hook" /\ run'[r].pc = "hook"

\* C4 (amended): two start requests, one after the other or concurrent, run
\* the start hook and timer.start() exactly once; a start, stop, pause or
\* resume requested in its final state while nobody holds or waits for the
\* lock returns without a hook, a timer call or a state write (a shutdown
\* requested in Shutdown raises WrongState instead).
C4_Idempotent ==
  /\ [](C4_StartOnce /\ C4_TwoStartsOnce)
  /\ [][\A r \in Runner : C4_AtFinal(r) /\ LockFree(run[r].obj) => C4_NoOp(r)]_vars

\* Two concurrent start calls have both returned; the hook ran once.
C4_Witness ==
  /\ C4_TwoStarts(1, 2)
  /\ result[1] = "ok" /\ result[2] = "ok"
  /\ component_state[1] = "STARTED"
  /\ count[1]["start"] = 1

\* C4 (as stated): a transition requested when the Component is in that
\* transition's final state never invokes its hook.
C4_NoHookAtFinal ==
  /\ [](C4_StartOnce /\ C4_TwoStartsOnce)
  /\ [][\A r \in Runner : Invokes(r) => run'[r].seen # Final(run'[r].part)]_vars

\* ---------------------------------------------- properties of the cascades
RegisteredObjs == ValueSet(components)
ObjOf(n) == Get(components, n)
AllRegistered(S) == \A n \in S : Has(components, n)

\* The frames of a start cascade have started the names before their index.
C5_InOrder ==
  \A c \in Callers : \A k \in 1..Len(stack[c]) :
    LET f == stack[c][k]
    IN f.op = "start" =>
         \A j \in 1..Len(FrameNames(f)) :
           j < f.i =>
             /\ Has(components, FrameNames(f)[j])
             /\ component_state[ObjOf(FrameNames(f)[j])] = "STARTED"

\* While a start hook runs, the declared dependencies of its Component are Started.
C5_DepsFirst ==
  \A r \in Runner :
    InHook(r, "start") =>
      \A d \in Elems(component_depend[run[r].obj]) :
        Has(components, d) /\ component_state[ObjOf(d)] = "STARTED"

\* start(names) ends, called on an acyclic graph of registered, Stopped components.
C5_Pre(c) ==
  /\ Ends(c, "start")
  /\ Acyclic
  /\ AllRegistered(DependClosure(Named(c)))
  /\ \A o \in RegisteredObjs : pre[o] = "STOPPED"

C5_Post(c) ==
  /\ result'[c] = "ok"
  /\ \A o \in Objs :
       IF o \in RegisteredObjs /\ component_name[o] \in DependClosure(Named(c))
       THEN /\ component_state'[o] = "STARTED"
            /\ count'[o] = [ZeroCount[o] EXCEPT !["start"] = 1, !["timer"] = 1]
       ELSE /\ component_state'[o] = pre[o]
            /\ count'[o] = ZeroCount[o]

\* C5: start(names) on an acyclic graph of registered, Stopped components
\* returns with exactly the named components and their transitive declared
\* dependencies Started, each start hook invoked once, everything else as it
\* was; dependencies are Started before the hook of a component declaring
\* them runs, in declared order.
C5_StartCascade ==
  /\ [](C5_InOrder /\ C5_DepsFirst)
  /\ [][C5_Pre(1) => C5_Post(1)]_vars

\* A start has returned on c3 -> <<c1, c2>> (in either order), c2 -> <<c1>>:
\* c1 is reached by two paths and its hook ran once.
C5_Witness ==
  /\ call[1].op = "start" /\ call[1].phase = "done" /\ result[1] = "ok"
  /\ \E o1, o2, o3 \in RegisteredObjs :
       /\ component_depend[o1] = <<>>
       /\ component_depend[o2] = <<component_name[o1]>>
       /\ Elems(component_depend[o3]) = {component_name[o1], component_name[o2]}
       /\ \A o \in {o1, o2, o3} : component_state[o] = "STARTED" /\ count[o]["start"] = 1

\* While a stop hook runs, every registered Component that transitively
\* declared the stopped one as a dependency is Stopped.
C6_DependentsFirst ==
  \A r \in Runner :
    InHook(r, "stop") =>
      \A m \in DependentsClosure(DeclaredDependents(component_name[run[r].obj])) :
        component_state[ObjOf(m)] = "STOPPED"

\* What stop(names) must stop, and the dependencies it must leave alone.
\* (a name that is not registered names no component and is skipped)
C6_Stopped(c) == {n \in Named(c) : Has(components, n)}
C6_ToStop(c) == C6_Stopped(c) \cup DependentsClosure(C6_Stopped(c))
C6_Kept(c) == DependClosure(C6_Stopped(c)) \ MapClosure(C6_Stopped(c))

C6_Post(c) ==
  \A o \in RegisteredObjs :
    /\ component_name[o] \in C6_ToStop(c) =>
         /\ component_state'[o] = "STOPPED"
         /\ count'[o]["stop"] = IF pre[o] \in {"STARTED", "PAUSED"} THEN 1 ELSE 0
    /\ component_name[o] \in C6_Kept(c) =>
         /\ component_state'[o] = pre[o]
         /\ count'[o] = ZeroCount[o]

\* stop(names) is called with no stale or cyclic edge and every Component at rest.
C6_Clean(c) ==
  /\ Acyclic
  /\ NoStaleEdge
  /\ \A o \in RegisteredObjs : pre[o] \in {"STOPPED", "STARTED", "PAUSED"}

\* C6: when stop(names) returns, the named components and all that
\* transitively declared them are Stopped, the stop hook of each that was
\* Started or Paused invoked once, and the components the named ones depend on
\* are as they were; a dependent is Stopped before the stop hook of what it
\* depends on runs.
C6_StopCascade ==
  /\ []C6_DependentsFirst
  /\ [][Ends(1, "stop") =>
          /\ result'[1] = "ok" => C6_Post(1)
          /\ C6_Clean(1) => result'[1] = "ok"]_vars

\* stop(<<c2>>) has returned on the chain c3 -> c2 -> c1, all three Started before.
C6_Witness ==
  /\ call[1].op = "stop" /\ call[1].phase = "done" /\ result[1] = "ok"
  /\ \E o1, o2, o3 \in RegisteredObjs :
       /\ component_depend[o1] = <<>>
       /\ component_depend[o2] = <<component_name[o1]>>
       /\ component_depend[o3] = <<component_name[o2]>>
       /\ component_state[o1] = "STARTED" /\ count[o1]["stop"] = 0
       /\ component_state[o2] = "STOPPED" /\ count[o2]["stop"] = 1
       /\ component_state[o3] = "STOPPED" /\ count[o3]["stop"] = 1

\* C7 (as stated): a start of a registered, Stopped component that declares an
\* unregistered dependency skips that name, returns and leaves the component
\* Started.
C7_UnregisteredDependSkipped ==
  [][\A n \in Names :
       (/\ Ends(1, "start")
        /\ call[1].kind = "list" /\ call[1].names = <<n>>
        /\ Has(components, n)
        /\ \E d \in DependSet(n) : ~Has(components, d)
        /\ \A o \in RegisteredObjs : pre[o] = "STOPPED")
       => result'[1] = "ok" /\ component_state'[ObjOf(n)] = "STARTED"]_vars

\* While a shutdown hook runs, the stop cascade of shutdown() is over: every
\* registered Component is Stopped (or already past it) and its timer is off.
C8_StoppedFirst ==
  \A r \in Runner :
    InHook(r, "shutdown") =>
      /\ call[r[1]].op = "shutdown" /\ call[r[1]].phase = "gather" /\ stack[r[1]] = <<>>
      /\ \A o \in RegisteredObjs :
           /\ component_state[o] \in {"STOPPED", "SHUTTING_DOWN", "SHUTDOWN"}
           /\ ~Running(o)

\* C8: shutdown() called with every registered Component Stopped, Started or
\* Paused invokes no shutdown hook before all of them are Stopped with the
\* timer off, and when it returns every one is Shutdown, its shutdown hook
\* invoked once.
C8_Shutdown ==
  /\ []C8_StoppedFirst
  /\ [][(/\ Ends(1, "shutdown")
         /\ \A o \in RegisteredObjs : pre[o] \in {"STOPPED", "STARTED", "PAUSED"}
         /\ result'[1] = "ok")
        => \A o \in RegisteredObjs :
             /\ component_state'[o] = "SHUTDOWN"
             /\ count'[o]["shutdown"] = 1
             /\ count'[o]["stop"] = IF pre[o] = "STOPPED" THEN 0 ELSE 1
             /\ ~Running(o)']_vars

\* shutdown() has returned on two components, one of which had to be stopped.
C8_Witness ==
  /\ call[1].op = "shutdown" /\ call[1].phase = "done" /\ result[1] = "ok"
  /\ Len(components) >= 2
  /\ \A o \in RegisteredObjs : component_state[o] = "SHUTDOWN" /\ count[o]["shutdown"] = 1
  /\ \E o \in RegisteredObjs : count[o]["stop"] = 1
  /\ \E o \in RegisteredObjs : count[o]["stop"] = 0

\* C9 (as stated): a shutdown never raises WrongState, neither the transition
\* of a Component nor the registry's shutdown().
C9_ShutdownAccepted ==
  /\ \A c \in Callers :
       ~(call[c].op = "shutdown" /\ call[c].phase = "done" /\ result[c] = "WrongState")
  /\ \A r \in Runner :
       ~(run[r].trans = "shutdown" /\ run[r].pc = "raised" /\ run[r].exc = "WrongState")

\* Every key of components maps to a Component of that name; keys are unique.
C10_KeysAreNames ==
  \A i \in 1..Len(components) :
    /\ component_name[components[i].obj] = components[i].key
    /\ \A j \in 1..Len(components) : components[j].key = components[i].key => i = j

\* Caller c constructs a Component in this step.
C10_Registers(c) == opsLeft' = opsLeft - 1 /\ call'[c].op = "register"

\* C10: constructing a Component whose name is registered raises
\* AlreadyRegistered and changes neither map; every key of components maps to
\* a Component of that name and keys are unique.
C10_Register ==
  /\ []C10_KeysAreNames
  /\ [][(C10_Registers(1) /\ Has(components, call'[1].names[1]))
        => /\ result'[1] = "AlreadyRegistered"
           /\ UNCHANGED <<components, dependents>>]_vars

\* A duplicate registration has failed after a deregistration took place.
C10_Witness ==
  /\ call[1].op = "register" /\ result[1] = "AlreadyRegistered"
  /\ \E o \in Objs : component_name[o] # None /\ ~Registered(o)

\* ------------------------------------------- the registry under concurrency
MaxDeregOps == 3  \* registry calls in the concurrent registry harness

\* Component("c2", depend=["c1"]): __init__ registers the new object.
ConstructDependent ==
  /\ component_name[1] # None
  /\ component_name[2] = None
  /\ cur = NoRunner
  /\ component_name' = [component_name EXCEPT ![2] = "c2"]
  /\ component_depend' = [component_depend EXCEPT ![2] = <<"c1">>]
  /\ components' = RegisterComponents(components, "c2", 2)
  /\ dependents' = RegisterDependents(dependents, "c2", <<"c1">>)
  /\ UNCHANGED <<compVars, ctlVars, opsLeft>>
  /\ UNCHANGED otherVars

\* Concurrent registry harness: Components c1 and c2 (which depends on c1) are
\* constructed, then up to NumCallers tasks at a time issue MaxDeregOps
\* registry calls in all, deregister among them.
InitDeregister ==
  /\ InitEmpty
  /\ opsLeft = MaxDeregOps

NextDeregister ==
  \/ Construct
  \/ ConstructDependent
  \/ \E c \in Callers :
       /\ Free(c)
       /\ component_name[2] # None
       /\ \/ CallStart(c, "keys", <<>>, pre, ZeroCount)
          \/ CallStop(c, "keys", <<>>, pre, ZeroCount)
          \/ CallStop(c, "list", TheName, pre, ZeroCount)
          \/ CallShutdown(c, pre, ZeroCount)
          \/ \E o \in {1, 2} : CallDeregister(c, o, pre, ZeroCount)
  \/ \E c \in Callers : Loop(c)
  \/ \E c \in Callers : GatherReturn(c)
  \/ \E r \in Runner : Step(r)
  \/ \E r \in Runner : Acquire(r)
  \/ \E r \in Runner : LockWake(r)
  \/ \E o \in Objs : TimerStep(o)

SpecDeregister == InitDeregister /\ [][NextDeregister]_vars

\* C11: a deregister call, also one that overlaps another deregister of the
\* same Component, never ends with KeyError (it ends by removing the Component
\* or with NotRegistered).
C11_DeregisterEnds ==
  \A c \in Callers :
    (call[c].op = "deregister" /\ call[c].phase = "done") => result[c] # "KeyError"

\* C19: a registry stop() or shutdown(), also one that overlaps a deregister
\* of a Component it visits, never ends with RuntimeError (it skips the names
\* that are gone and returns).
C19_StopSkipsDeregistered ==
  \A c \in Callers :
    (call[c].op \in {"stop", "shutdown"} /\ call[c].phase = "done") => result[c] # "RuntimeError"

\* C20: in every reachable registry state, for every registered Component C
\* and every name d of C's depend list that is registered, C's name is in
\* dependents[d].
C20_ReverseEdges ==
  \A o \in Objs :
    Registered(o) =>
      \A d \in Elems(component_depend[o]) :
        Has(components, d) => component_name[o] \in Elems(dependents[d])

\* A Component registered before its dependency was, after a deregistration.
C20_Witness ==
  \E o \in Objs :
    /\ Registered(o)
    /\ component_depend[o] # <<>>
    /\ \A d \in Elems(component_depend[o]) :
         /\ Has(components, d)
         /\ Get(components, d) > o
         /\ component_name[o] \in Elems(dependents[d])
    /\ \E x \in Objs : component_name[x] # None /\ ~Registered(x)

\* The update hook of Component o is invoked in this step.
C17_Update(o) == timer_task[o] # "func" /\ timer_task'[o] = "func"

\* C17: the update hook of a Component is invoked only while the state of the
\* Component is Started.
C17_UpdateOnlyStarted ==
  [][\A o \in Objs : C17_Update(o) => component_state[o] = "STARTED"]_vars

\* ------------------------------------------------------------ hook failure
MaxFailOps == 4  \* registry calls in the harness with failing hooks

\* The awaited user hook raises: the exception leaves the `async with` block,
\* which releases the lock, and then _component_<t>; the statements after the
\* await (timer, final state) are not executed.
HookFail(r) ==
  /\ cur = NoRunner
  /\ run[r].pc = "hook"
  /\ Release(run[r].obj)
  /\ Raise(r, "HookFailure")
  /\ UNCHANGED <<regVars, objVars, component_state, lock_waiters, timer_task, count, opsLeft>>
  /\ UNCHANGED otherVars

\* Concurrent harness in which every awaited hook may also fail.
InitFail ==
  /\ InitEmpty
  /\ opsLeft = MaxFailOps

NextFail ==
  \/ Construct
  \/ \E c \in Callers :
       /\ Free(c)
       /\ component_name[1] # None
       /\ \/ CallStart(c, "list", TheName, pre, count)
          \/ CallStop(c, "list", TheName, pre, count)
          \/ CallPause(c, "list", TheName, pre, count)
          \/ CallResume(c, "list", TheName, pre, count)
          \/ CallShutdown(c, pre, count)
  \/ \E c \in Callers : Loop(c)
  \/ \E c \in Callers : GatherReturn(c)
  \/ \E r \in Runner : Step(r)
  \/ \E r \in Runner : HookFail(r)
  \/ \E r \in Runner : Acquire(r)
  \/ \E r \in Runner : LockWake(r)
  \/ \E o \in Objs : TimerStep(o)

SpecFail == InitFail /\ [][NextFail]_vars

\* The hook awaited by r fails in this step.
C18_Fails(r) == run[r].pc = "hook" /\ RaisedTo(r, "HookFailure")

\* C18: when the user hook of a transition fails, the failure propagates to
\* what awaited the transition, the Component stays in the transition's
\* intermediate state, the timer is not touched and the lock is released; the
\* lock is only ever held by a transition that is still in progress.
C18_HookFailure ==
  /\ [](\A o \in Objs : lock_locked[o] <=> Holders(o) # {})
  /\ [][\A r \in Runner :
          C18_Fails(r) =>
            LET o == run[r].obj
            IN /\ component_state[o] = Intermediate(run[r].part)
               /\ component_state'[o] = Intermediate(run[r].part)
               /\ timer_task'[o] = timer_task[o]
               /\ count'[o] = count[o]
               /\ ~lock_locked'[o]
               /\ r \notin Holders(o)']_vars

\* After the hook of one request failed, a later request on the Component,
\* made in the intermediate state, holds the lock and awaits its hook.
C18_Witness ==
  \E c \in Callers : \E r \in Runner :
    /\ result[c] = "HookFailure"
    /\ r[1] # c
    /\ run[r].pc = "hook"
    /\ run[r].seen \in {Intermediate(t) : t \in Hooks}
    /\ component_state[run[r].obj] = Intermediate(run[r].part)

\* -------------------------------------------------------------- the framer
\* DelugeRPCProtocol (deluge/protocol.py): a sending protocol writes frames to
\* its transport; the bytes reach data_received of a receiving protocol in
\* chunks cut anywhere.  Bytes are integers 0..255.
PROTOCOL_VERSION == 1
MESSAGE_HEADER_SIZE == 5
MaxFrames == 3   \* frames written to the transport
MaxItems == 1    \* items of a payload
Items == {1, 2}

\* The payloads: lists of small integers.
Payloads == SeqsUpTo(Items, MaxItems)

\* rencode.dumps of a short list of small integers: the type code of a list of
\* that length, then one byte per item.
LIST_FIXED_START == 192
Dumps(p) == <<LIST_FIXED_START + Len(p)>> \o p

\* rencode.loads raises on bytes that are not an encoding.
LoadsRaises(d) == d = <<>> \/ d[1] # LIST_FIXED_START + Len(d) - 1
Loads(d) == Tail(d)

RECURSIVE Sum(_)
Sum(d) == IF d = <<>> THEN 0 ELSE Head(d) + Sum(Tail(d))

\* zlib.compress: a header byte, the data, a checksum of the data (one byte
\* stands for the Adler-32 trailer; data this short is stored, not shortened).
ZLIB_HEADER == 120
Adler(d) == (1 + Sum(d)) % 256
Compress(d) == <<ZLIB_HEADER>> \o d \o <<Adler(d)>>

\* zlib.decompress raises zlib.error on anything else.
DecompressRaises(b) ==
  \/ Len(b) < 2
  \/ b[1] # ZLIB_HEADER
  \/ b[Len(b)] # Adler(SubSeq(b, 2, Len(b) - 1))
Decompress(b) == SubSeq(b, 2, Len(b) - 1)

\* struct.pack('!BI', version, size): one byte, then four bytes big-endian.
PackHeader(version, size) ==
  <<version % 256, (size \div 16777216) % 256, (size \div 65536) % 256,
    (size \div 256) % 256, size % 256>>

\* struct.unpack('!BI', m[:5]): the size field, an unsigned 32-bit integer.
\* A size of 2^31 or more is given as 2^31 - 1, the largest integer of the
\* model: both are more than any buffer here holds.
UnpackSize(m) ==
  IF m[2] >= 128 THEN 2147483647
  ELSE m[2] * 16777216 + m[3] * 65536 + m[4] * 256 + m[5]

\* unpack_header raises InvalidVersion.
InvalidVersion(version) == version # PROTOCOL_VERSION

\* The frame send() writes for payload p, with `version` in its header.
Message(version, p) ==
  LET body == Compress(Dumps(p))
  IN PackHeader(version, Len(body)) \o body

\* del self.buf[: MESSAGE_HEADER_SIZE + size]
Consume(b, size) == SubSeq(b, MESSAGE_HEADER_SIZE + size + 1, Len(b))

\* while len(self.buf) > MESSAGE_HEADER_SIZE:
HeaderBuffered(b) == Len(b) > MESSAGE_HEADER_SIZE

RECURSIVE Receive(_, _)
\* The while loop of data_received on buffer b, msgs delivered so far: what is
\* left in buf, what was delivered and the exception that ended the call.
Receive(b, msgs) ==
  IF ~HeaderBuffered(b)
  THEN [buf |-> b, messages |-> msgs, exc |-> "none"]
  ELSE IF InvalidVersion(b[1])
  THEN \* except InvalidVersion: self.buf = bytearray()
       [buf |-> <<>>, messages |-> msgs, exc |-> "none"]
  ELSE LET size == UnpackSize(b)
           msg == SubSeq(b, MESSAGE_HEADER_SIZE + 1, MESSAGE_HEADER_SIZE + size)
       IN IF Len(b) - MESSAGE_HEADER_SIZE < size
          THEN [buf |-> b, messages |-> msgs, exc |-> "none"]
          ELSE IF DecompressRaises(msg)
          THEN [buf |-> b, messages |-> msgs, exc |-> "zlib.error"]
          ELSE IF LoadsRaises(Decompress(msg))
          THEN [buf |-> b, messages |-> msgs, exc |-> "ValueError"]
          ELSE Receive(Consume(b, size), Append(msgs, Loads(Decompress(msg))))

\* What the framer never touches.
notFramerVars ==
  <<regVars, objVars, compVars, ctlVars, opsLeft, loopVars>>

\* DelugeRPCProtocol.send(p) on the sending protocol.
Send(p) ==
  /\ Len(sent) < MaxFrames
  /\ LET message == Message(PROTOCOL_VERSION, p)
     IN /\ bytes_sent' = bytes_sent + Len(message)
        /\ transport' = transport \o message
  /\ sent' = Append(sent, [version |-> PROTOCOL_VERSION, payload |-> p])
  /\ UNCHANGED <<buf, messages, bytes_received, fed, recv, notFramerVars>>

\* DelugeRPCProtocol.data_received(data) on the receiving protocol, data being
\* the next n bytes written to the transport.
DataReceived(n) ==
  /\ n \in 1..(Len(transport) - fed)
  /\ LET data == SubSeq(transport, fed + 1, fed + n)
         r == Receive(buf \o data, messages)
     IN /\ buf' = r.buf
        /\ messages' = r.messages
        /\ recv' = IF r.exc = "none" THEN "ok" ELSE r.exc
  /\ bytes_received' = bytes_received + n
  /\ fed' = fed + n
  /\ UNCHANGED <<bytes_sent, transport, sent, notFramerVars>>

\* Framer harness: up to MaxFrames payloads are sent; what was written is
\* delivered to the receiver in chunks of any length.
InitFramer ==
  /\ InitEmpty
  /\ opsLeft = 0

NextFramer ==
  \/ \E p \in Payloads : Send(p)
  \/ \E n \in 1..(MaxFrames * (MESSAGE_HEADER_SIZE + MaxItems + 3)) : DataReceived(n)

SpecFramer == InitFramer /\ [][NextFramer]_vars

RECURSIVE Wire(_)
\* The bytes of a sequence of frames.
Wire(frames) ==
  IF frames = <<>> THEN <<>>
  ELSE Message(Head(frames).version, Head(frames).payload) \o Wire(Tail(frames))

PayloadsOf(frames) == [i \in 1..Len(frames) |-> frames[i].payload]

\* C12: the payloads delivered are, in order, those of the frames whose bytes
\* have all been passed to data_received, each once; the buffer holds the
\* bytes passed after them, which never are a whole frame; no call raises; so
\* when every byte written was passed on, whatever the chunks, the k payloads
\* sent were delivered in order and the buffer is empty.
C12_RoundTrip ==
  LET k == Len(messages)
  IN /\ k <= Len(sent)
     /\ messages = SubSeq(PayloadsOf(sent), 1, k)
     /\ transport = Wire(sent)
     /\ SubSeq(transport, 1, fed) = Wire(SubSeq(sent, 1, k)) \o buf
     /\ k < Len(sent) => Len(buf) < Len(Message(sent[k + 1].version, sent[k + 1].payload))
     /\ recv \in {"none", "ok"}
     /\ bytes_received = fed /\ bytes_sent = Len(transport)
     /\ fed = Len(transport) => (messages = PayloadsOf(sent) /\ buf = <<>>)

\* MaxFrames frames, not all alike, were delivered, the last chunk having
\* ended the stream.
C12_Witness ==
  /\ Len(sent) = MaxFrames
  /\ sent[1].payload # sent[2].payload
  /\ fed = Len(transport)
  /\ Len(messages) = MaxFrames

\* The version bytes a peer may put on the wire.
Versions == {PROTOCOL_VERSION, PROTOCOL_VERSION + 1}

\* A peer that speaks another protocol version writes a frame to the transport.
ForeignSend(version, p) ==
  /\ Len(sent) < MaxFrames
  /\ version # PROTOCOL_VERSION
  /\ transport' = transport \o Message(version, p)
  /\ sent' = Append(sent, [version |-> version, payload |-> p])
  /\ UNCHANGED <<buf, messages, bytes_received, bytes_sent, fed, recv, notFramerVars>>

\* Framer harness with frames of other versions among those written.
NextVersions ==
  \/ \E p \in Payloads : Send(p)
  \/ \E version \in Versions : \E p \in Payloads : ForeignSend(version, p)
  \/ \E n \in 1..(MaxFrames * (MESSAGE_HEADER_SIZE + MaxItems + 3)) : DataReceived(n)

SpecVersions == InitFramer /\ [][NextVersions]_vars

IsPrefix(a, b) == Len(a) <= Len(b) /\ SubSeq(b, 1, Len(a)) = a

\* The payload of the well-formed frame b begins with, if it begins with one.
FirstFrame(b) == {p \in Payloads : IsPrefix(Message(PROTOCOL_VERSION, p), b)}

RECURSIVE LeadingFrames(_)
\* The payloads of the well-formed frames b begins with.
LeadingFrames(b) ==
  IF FirstFrame(b) = {} THEN <<>>
  ELSE LET p == CHOOSE q \in FirstFrame(b) : TRUE
       IN <<p>> \o LeadingFrames(SubSeq(b, Len(Message(PROTOCOL_VERSION, p)) + 1, Len(b)))

RECURSIVE AfterFrames(_)
\* What follows them in b.
AfterFrames(b) ==
  IF FirstFrame(b) = {} THEN b
  ELSE LET p == CHOOSE q \in FirstFrame(b) : TRUE
       IN AfterFrames(SubSeq(b, Len(Message(PROTOCOL_VERSION, p)) + 1, Len(b)))

\* C13: every data_received call delivers the well-formed frames its buffer
\* begins with; when what follows them is a header (more than
\* MESSAGE_HEADER_SIZE bytes) whose version byte is not PROTOCOL_VERSION, then,
\* whether or not the body is there, nothing more is delivered, the call
\* returns normally and the buffer is empty afterwards.
C13_VersionMismatch ==
  [][fed' > fed =>
       LET b == buf \o SubSeq(transport, fed + 1, fed')
           rest == AfterFrames(b)
       IN /\ messages' = messages \o LeadingFrames(b)
          /\ (Len(rest) > MESSAGE_HEADER_SIZE /\ rest[1] # PROTOCOL_VERSION)
               => (buf' = <<>> /\ recv' = "ok")]_vars

\* A frame of another version came first and was dropped, with the bytes that
\* followed its header; the well-formed frame written after it was delivered.
C13_Witness ==
  /\ Len(sent) = 2
  /\ sent[1].version # PROTOCOL_VERSION
  /\ sent[2].version = PROTOCOL_VERSION
  /\ messages = <<sent[2].payload>>
  /\ fed = Len(transport)
  /\ buf = <<>>
  /\ recv = "ok"

\* C13 as stated, last part: once the header of a frame of another version has
\* been parsed in one call, a well-formed frame passed to data_received by
\* later calls is delivered.
C13_LaterFrameDelivered ==
  [][(/\ Len(sent) = 2
      /\ sent[1].version # PROTOCOL_VERSION
      /\ sent[2].version = PROTOCOL_VERSION
      /\ fed > MESSAGE_HEADER_SIZE
      /\ fed <= Len(Message(sent[1].version, sent[1].payload))
      /\ fed' = Len(transport))
     => messages' = <<sent[2].payload>>]_vars

\* ----------------------------------------------------- the stand-alone timer
\* LoopingCall (deluge/loopingcall.py) on its own, as in test_loopingcall.py:
\* one task calls start() and stop() on one LoopingCall while the event loop's
\* clock advances.  Its task is kept in timer_task[TheTimer].
TheTimer == 1
MaxTimerOps == 4  \* start() and stop() calls
MaxClock == 6     \* the clock stops here
MaxInterval == 2  \* the longest interval
Intervals == 1..MaxInterval

\* What the stand-alone timer never touches.
notLoopVars ==
  <<regVars, objVars, component_state, lock_locked, lock_waiters, count, ctlVars, framerVars>>

\* Faulty variant: _run that ignores `now`.
NextIgnoresNow(t, now) == TimerNext(t)

\* LoopingCall._run(interval, now): with now=False the task goes to its first
\* sleep without calling back.
RunNext(t, now) == IF t = "pending" /\ ~now THEN "sleep" ELSE TimerNext(t)

\* What every call of the calling task does first.
BeginTimerCall ==
  /\ lc.pc = "idle"
  /\ opsLeft > 0
  /\ opsLeft' = opsLeft - 1

\* LoopingCall.start(interval, now)
LoopStart(interval, now) ==
  /\ BeginTimerCall
  /\ IF TimerStartRaises(TheTimer)
     THEN /\ lc' = [lc EXCEPT !.op = "start", !.result = "AlreadyRunning"]
          /\ UNCHANGED <<timer_task, task_args, sched>>
     ELSE /\ timer_task' = [timer_task EXCEPT ![TheTimer] = "pending"]
          /\ task_args' = [interval |-> interval, now |-> now]
          /\ sched' = [started |-> clock, fired |-> 0, returned |-> 0, busy |-> FALSE]
          /\ lc' = [lc EXCEPT !.op = "start", !.result = "ok"]
  /\ UNCHANGED <<clock, wake, calls, notLoopVars>>

\* LoopingCall.stop(), up to `await self.task`.
LoopStop ==
  /\ BeginTimerCall
  /\ IF TimerStopRaises(TheTimer)
     THEN /\ lc' = [lc EXCEPT !.op = "stop", !.result = "NotRunning"]
          /\ UNCHANGED timer_task
     ELSE /\ timer_task' = [timer_task EXCEPT ![TheTimer] = "cancelled"]
          /\ lc' = [lc EXCEPT !.op = "stop", !.pc = "stop", !.result = "none"]
  /\ UNCHANGED <<clock, task_args, wake, calls, sched, notLoopVars>>

\* The cancelled task has ended: except CancelledError: pass; finally:
\* self.task = None.
LoopStopReturn ==
  /\ lc.pc = "stop"
  /\ timer_task[TheTimer] = "cancelled"
  /\ timer_task' = [timer_task EXCEPT ![TheTimer] = "none"]
  /\ lc' = [lc EXCEPT !.pc = "idle", !.result = "ok", !.stopped = TRUE]
  /\ UNCHANGED <<clock, task_args, wake, calls, sched, opsLeft, notLoopVars>>

\* The task of _run runs up to its next await: it calls the callback, or the
\* callback has returned and it sleeps for `interval`.  A sleeping task runs
\* when its time has come.
LoopRun ==
  /\ timer_task[TheTimer] \in {"pending", "func", "sleep"}
  /\ timer_task[TheTimer] = "sleep" => wake <= clock
  /\ LET t == RunNext(timer_task[TheTimer], task_args.now)
     IN /\ timer_task' = [timer_task EXCEPT ![TheTimer] = t]
        /\ calls' = IF t = "func" THEN calls + 1 ELSE calls
        /\ sched' = IF t = "func" THEN [sched EXCEPT !.fired = @ + 1]
                   ELSE IF timer_task[TheTimer] = "func" THEN [sched EXCEPT !.returned = @ + 1]
                   ELSE sched
        /\ wake' = IF t = "sleep" THEN clock + task_args.interval ELSE wake
  /\ UNCHANGED <<clock, task_args, lc, opsLeft, notLoopVars>>

\* Time passes, once every task that can run has run; the callback may be
\* suspended meanwhile.
Tick ==
  /\ clock < MaxClock
  /\ lc.pc = "idle"
  /\ timer_task[TheTimer] # "pending"
  /\ timer_task[TheTimer] = "sleep" => wake > clock
  /\ clock' = clock + 1
  /\ sched' = IF timer_task[TheTimer] = "func" THEN [sched EXCEPT !.busy = TRUE] ELSE sched
  /\ UNCHANGED <<timer_task, task_args, wake, calls, lc, opsLeft, notLoopVars>>

InitLoop ==
  /\ InitEmpty
  /\ opsLeft = MaxTimerOps

NextLoop ==
  \/ \E interval \in Intervals : \E now \in BOOLEAN : LoopStart(interval, now)
  \/ LoopStop
  \/ LoopStopReturn
  \/ LoopRun
  \/ Tick

SpecLoop == InitLoop /\ [][NextLoop]_vars

\* The calling task calls start() / stop() in this step.
StartCalled == opsLeft' = opsLeft - 1 /\ lc'.op = "start"
StopCalled == opsLeft' = opsLeft - 1 /\ lc'.op = "stop"

\* The invocations due by now when the callback takes no time: one per whole
\* interval since start(), and one more at once with now=True.
Due ==
  (clock - sched.started) \div task_args.interval + (IF task_args.now THEN 1 ELSE 0)

\* The task sleeps and its time has not come: nothing is left to run.
Quiet == timer_task[TheTimer] = "sleep" /\ wake > clock

\* C14: start() on a timer that has a task raises AlreadyRunning and changes
\* nothing: the task, its arguments, its wake-up time and the invocation
\* counts are as before.
C14_AlreadyRunning ==
  [][(StartCalled /\ Running(TheTimer))
     => /\ lc'.result = "AlreadyRunning"
        /\ UNCHANGED <<timer_task, task_args, wake, calls, sched, clock>>]_vars

\* A start() failed on a running timer, which went on calling back on time.
C14_Witness ==
  /\ lc.op = "start" /\ lc.result = "AlreadyRunning"
  /\ Quiet
  /\ ~sched.busy
  /\ sched.fired >= 2
  /\ sched.fired = Due

\* C15: stop() on a timer without a task raises NotRunning and changes
\* nothing; on a timer with a task it cancels the task, awaits it and returns
\* normally, the timer not running afterwards; the callback is not invoked
\* from the moment stop() cancelled the task until a later start(), however
\* much time passes; a start() on the stopped timer succeeds.
C15_Stop ==
  /\ [](lc.pc = "stop" => timer_task[TheTimer] = "cancelled")
  /\ [][(StopCalled /\ ~Running(TheTimer))
        => /\ lc'.result = "NotRunning"
           /\ lc'.pc = "idle"
           /\ UNCHANGED <<timer_task, task_args, wake, calls, sched, clock>>]_vars
  /\ [][(StopCalled /\ Running(TheTimer))
        => /\ lc'.pc = "stop"
           /\ timer_task'[TheTimer] = "cancelled"]_vars
  /\ [][(lc.pc = "stop" /\ lc'.pc = "idle")
        => /\ lc'.result = "ok"
           /\ ~Running(TheTimer)']_vars
  /\ [][timer_task[TheTimer] \in {"none", "cancelled"} => calls' = calls]_vars
  /\ [][(StartCalled /\ ~Running(TheTimer))
        => /\ lc'.result = "ok"
           /\ Running(TheTimer)']_vars

\* The timer called back, was stopped, stayed silent while time passed, was
\* started again and has called back again.
C15_Witness ==
  /\ lc.stopped
  /\ Running(TheTimer)
  /\ sched.started > 0
  /\ sched.fired >= 1
  /\ calls > sched.fired

\* C16: the callback is invoked at once with now=True and not before a full
\* interval with now=False; every later invocation comes when `interval` has
\* passed since the previous invocation returned; so as long as the callback
\* returns without time passing, when nothing is left to run n intervals after
\* start() the invocation count is n + 1 (now=True) or n (now=False), and it
\* is never more than that.
C16_Schedule ==
  /\ [](timer_task[TheTimer] \in {"func", "sleep"} => sched.fired <= Due)
  /\ []((timer_task[TheTimer] \in {"func", "sleep"} /\ task_args.now) => sched.fired >= 1)
  /\ []((Quiet /\ ~sched.busy) => sched.fired = Due)
  /\ [][(timer_task[TheTimer] # "sleep" /\ timer_task'[TheTimer] = "sleep")
        => wake' = clock + task_args.interval]_vars
  /\ [][(timer_task[TheTimer] = "sleep" /\ sched'.fired = sched.fired + 1)
        => clock = wake]_vars

\* Three intervals after start() the callback, which never took time, has been
\* invoked four times (now=True) or three times (now=False).
C16_Witness ==
  /\ Quiet
  /\ ~sched.busy
  /\ clock - sched.started = 3 * task_args.interval
  /\ sched.fired = Due

\* C16 as stated: after n elapsed intervals the invocation count is n + 1
\* (now=True) or n (now=False), whatever the callback does.
C16_CountAfterIntervals == Quiet => sched.fired = Due

\* The states a transition writes before it awaits its hook.
IntermediateStates == {Intermediate(t) : t \in Hooks}

\* No transition of Component o is in flight: its lock is free and no request
\* waits for it.
AtRest(o) == ~lock_locked[o] /\ lock_waiters[o] = <<>>

\* C21: when no hook fails, a Component with no transition in flight is not
\* in an intermediate state.
C21_AtRestNotIntermediate ==
  \A o \in Objs : AtRest(o) => component_state[o] \notin IntermediateStates

\* Transition t of Component o writes its intermediate state in this step.
C22_Writes(o, t) ==
  component_state[o] # Intermediate(t) /\ component_state'[o] = Intermediate(t)

\* C22: whenever a start, stop, pause or resume transition writes its
\* intermediate state, the state it overwrites is one of the states that
\* transition accepts.
C22_AcceptedUnderLock ==
  [][\A o \in Objs : \A t \in Hooks \ {"shutdown"} :
       C22_Writes(o, t) => component_state[o] \in Accepted(t)]_vars

\* C23: in every reachable registry state, each name m in dependents[n] is a
\* registered Component whose depend list contains n.
C23_NoStaleReverseEdge ==
  \A n \in Names : \A m \in Elems(dependents[n]) :
    /\ Has(components, m)
    /\ n \in Elems(component_depend[Get(components, m)])

\* ------------------------------------------------------ the header boundary
\* A frame of the current version with an empty body: the header alone.
EmptyFrame == PackHeader(PROTOCOL_VERSION, 0)

\* A peer writes a frame whose body length is 0 (no payload: send() never does,
\* the body it writes is zlib output).
EmptySend ==
  /\ Len(sent) < MaxFrames
  /\ transport' = transport \o EmptyFrame
  /\ sent' = Append(sent, [version |-> PROTOCOL_VERSION, payload |-> None])
  /\ UNCHANGED <<buf, messages, bytes_received, bytes_sent, fed, recv, notFramerVars>>

\* Framer harness with empty frames and frames of other versions among those
\* written.
NextBoundary ==
  \/ \E p \in Payloads : Send(p)
  \/ \E version \in Versions : \E p \in Payloads : ForeignSend(version, p)
  \/ EmptySend
  \/ \E n \in 1..(MaxFrames * (MESSAGE_HEADER_SIZE + MaxItems + 3)) : DataReceived(n)

SpecBoundary == InitFramer /\ [][NextBoundary]_vars

\* What data_received works on in this step: the buffer with the new bytes.
Incoming == buf \o SubSeq(transport, fed + 1, fed')

\* C24: with MESSAGE_HEADER_SIZE bytes or fewer in the buffer a call parses
\* nothing (no version test, no delivery, the bytes stay); a frame with a
\* non-empty body is delivered by the call that brings its last byte; a frame
\* whose body length is 0 is left alone while it is all the buffer holds, and
\* once a further byte has arrived its header is parsed but the call raises
\* zlib.error on the empty body, delivering and consuming nothing.
C24_HeaderBoundary ==
  [][fed' > fed =>
       /\ Len(Incoming) <= MESSAGE_HEADER_SIZE
            => (buf' = Incoming /\ messages' = messages /\ recv' = "ok")
       /\ \A p \in Payloads :
            Incoming = Message(PROTOCOL_VERSION, p)
              => (buf' = <<>> /\ messages' = Append(messages, p) /\ recv' = "ok")
       /\ (IsPrefix(EmptyFrame, Incoming) /\ Len(Incoming) > MESSAGE_HEADER_SIZE)
            => (buf' = Incoming /\ messages' = messages /\ recv' = "zlib.error")]_vars

\* The buffer holds exactly a header of another version: it was not tested.
C24_Witness ==
  /\ Len(buf) = MESSAGE_HEADER_SIZE
  /\ buf[1] # PROTOCOL_VERSION
  /\ recv = "ok"
  /\ messages # <<>>

\* An empty frame and one further byte were passed on: the call raised.
C24_WitnessEmpty ==
  /\ IsPrefix(EmptyFrame, buf)
  /\ Len(buf) = MESSAGE_HEADER_SIZE + 1
  /\ recv = "zlib.error"

\* C24 as stated: a frame whose body length is 0 is consumed once at least
\* one further byte has arrived.
C24_EmptyFrameConsumed ==
  [][(fed' > fed /\ IsPrefix(EmptyFrame, Incoming) /\ Len(Incoming) > MESSAGE_HEADER_SIZE)
     => (recv' = "ok" /\ Len(buf') = Len(Incoming) - MESSAGE_HEADER_SIZE)]_vars

\* C25: when stop() returns, every invocation of the callback made since
\* start() has run to its normal return: a stop() requested while the task is
\* suspended inside the callback does not interrupt it.
C25_CallbackNotInterrupted ==
  [][(lc.pc = "stop" /\ lc'.pc = "idle") => sched.returned = sched.fired]_vars

\* Every name a registered Component declares as a dependency is registered.
C26_DependsRegistered == \A n \in Elems(Keys(components)) : AllRegistered(DependSet(n))

\* A cascade is called on an acyclic declared graph, every declared dependency
\* registered, every Component in a state the cascade's transitions accept.
C26_Pre(op) ==
  /\ Acyclic
  /\ C26_DependsRegistered
  /\ \A o \in RegisteredObjs : pre[o] \in Accepted(op) \ {Intermediate(op)}

\* C26: on an acyclic dependency graph in which every declared dependency is
\* registered, each start(names) returns with the named components and their
\* transitive dependencies Started, and each stop(names) returns with the named
\* components and their transitive dependents Stopped.
C26_CascadeReturns ==
  [][/\ (Ends(1, "start") /\ C26_Pre("start") /\ AllRegistered(Named(1))) =>
          /\ result'[1] = "ok"
          /\ \A n \in DependClosure(Named(1)) : component_state'[ObjOf(n)] = "STARTED"
     /\ (Ends(1, "stop") /\ C26_Pre("stop")) =>
          /\ result'[1] = "ok"
          /\ \A n \in C6_ToStop(1) : component_state'[ObjOf(n)] = "STOPPED"]_vars

====
